---- MODULE Spec2Model ----
(***************************************************************************)
(* Model of the gateway's scheduling core                                  *)
(* (ahmadhassan44/container-orchestrator):                                 *)
(*   - Orchestrator (internal/gateway/orchestrator.go): the worker map,    *)
(*     StartWorker, UpdateWorkerCPU, GetNextAvailableCore;                 *)
(*   - Scheduler (the scheduler source with job queuing): ScheduleJob,     *)
(*     scheduleJobDirect, scheduleJobWithQueue, processJobQueue,           *)
(*     tryProcessQueue, findSuitableWorker, checkProactiveSpawn.           *)
(*                                                                         *)
(* Every goroutine is a process with a program counter.  A step is one     *)
(* lock acquisition, one registry call, or one unsynchronised read of      *)
(* WorkerInfo.CurrentCPU through the shared *WorkerInfo pointer.  CPU      *)
(* percentages are the integers the callers submit (float64 arithmetic is  *)
(* exact on them).  Time is counted in ticks; QUEUE_TIMEOUT is expressed   *)
(* in ticks.                                                               *)
(***************************************************************************)
EXTENDS Integers, Sequences, FiniteSets, TLC

\* ---------------------------------------------------------------- bounds
\* Number of ScheduleJob calls (one caller goroutine each).
NumJobs == 3

\* Capacity of the jobQueue channel (100 in the source, scaled down).
MAX_QUEUE_SIZE == 2

\* Queue deadline in ticks (30 seconds in the source, scaled down).
QUEUE_TIMEOUT == 1

\* Number of ScheduleJob calls explored for the build without job queuing
\* (DirectSpec).
DirectJobs == 4

\* Number of cpu_load 20 submissions in the queue-drain scenario (all of them
\* fit in the queue, as in the scenario).
QueuedJobs == 2

\* ------------------------------------------------------ program constants
MaxCPUThreshold == 80

PreSpawnThreshold == 70

\* findSuitableWorker's initial lowestCPU (101.0)
LowestCPUStart == 101

\* keys of coreMaps
Cores == {1, 2, 3}

\* cfg.InitialWorkers values explored (default 1; 3 fills the catalogue)
InitialWorkersChoices == {1, 3}

\* EstimateCPUUsage results explored (req.CPULoad, validated to (0,100])
EstimateChoices == {40, 100}


\* nil *WorkerInfo / no core
NoWorker == 0

\* scheduleMux holders: a job, or the drainer; Free when unlocked
Free == 0

Drainer == NumJobs + DirectJobs + 1

VARIABLES
  enableQueue,   \* ENABLE_JOB_QUEUE of the build
  workers,       \* Orchestrator.workers: CoreID -> CurrentCPU
  containers,    \* per core: number of containers started by StartWorker
  scheduleMux,   \* Scheduler.scheduleMux: Free, a job, or Drainer
  jobQueue,      \* Scheduler.jobQueue: buffered channel of queued jobs
  stopped,       \* queueWorkerStop closed
  call,          \* per ScheduleJob call: pc, est, wk, core, rd, result, returns
  qjob,          \* per QueuedJob: age, seq, respCh, errCh, sent, rq
  run,           \* per job, the goroutine dispatching it: pc, async, wk, rd, ok, core
  drain,         \* the processJobQueue goroutine: pc, job, wk, rd, snap, offered
  nextSeq,       \* number of QueuedJobs created so far (orders enqueuedAt)
  outstanding,   \* per core: jobs whose reservation is committed, not released
  place          \* per job: pre (CurrentCPU observed at placement), alone

vars == <<enableQueue, workers, containers, scheduleMux, jobQueue, stopped,
          call, qjob, run, drain, nextSeq, outstanding, place>>

\* the ScheduleJob calls made (one caller goroutine each)
Jobs == DOMAIN call

\* ------------------------------------------------------------ pure helpers
RECURSIVE SumEst(_, _)
SumEst(S, c) ==
  IF S = {} THEN 0
  ELSE LET j == CHOOSE x \in S : TRUE IN c[j].est + SumEst(S \ {j}, c)

Min(a, b) == IF a < b THEN a ELSE b

InSeq(x, s) == \E i \in 1..Len(s) : s[i] = x

\* orchestrator.go GetNextAvailableCore: lowest unoccupied core, or NoWorker
GetNextAvailableCore(ws) ==
  IF \E c \in Cores : c \notin DOMAIN ws
  THEN CHOOSE c \in Cores : c \notin DOMAIN ws /\ \A d \in Cores : d < c => d \in DOMAIN ws
  ELSE NoWorker

\* StartWorker's validation: a valid core that is not yet occupied
StartWorkerNoCheck(ws, coreID) == coreID \in Cores

\* a validation without the catalogue lookup
StartWorkerAnyCore(ws, coreID) == coreID \notin DOMAIN ws

CanStartWorker(ws, coreID) == coreID \in Cores /\ coreID \notin DOMAIN ws

\* an eligibility gate without the threshold test
EligibleAlways(ws, e) == DOMAIN ws

\* findSuitableWorker's eligibility gate
Eligible(ws, e) ==
  {c \in DOMAIN ws : ws[c] + e <= MaxCPUThreshold /\ ws[c] < LowestCPUStart}

\* a selection that takes any eligible worker, not the least loaded
AnyEligible(ws, e) == Eligible(ws, e)

\* findSuitableWorker: the workers the loop can return.  The loop keeps the
\* first worker with the strictly lowest CurrentCPU in map iteration order,
\* which Go randomises, so any eligible worker of minimal CurrentCPU can win.
FindSuitableWorker(ws, e) ==
  {c \in Eligible(ws, e) : \A d \in Eligible(ws, e) : ws[c] <= ws[d]}

\* a pre-spawn check satisfied by one busy worker
SomeBusy(ws) == \E c \in DOMAIN ws : ws[c] >= PreSpawnThreshold

\* checkProactiveSpawn: non-empty worker set, all at or above the threshold
AllBusy(ws) ==
  /\ DOMAIN ws # {}
  /\ \A c \in DOMAIN ws : ws[c] >= PreSpawnThreshold

\* non-blocking send on jobQueue (select ... default)
OfferAcceptsOffByOne(q) == Len(q) <= MAX_QUEUE_SIZE

OfferAccepts(q) == Len(q) < MAX_QUEUE_SIZE

\* the requeue goroutine's send on jobQueue can proceed
RequeueAlways(q) == TRUE

RequeueNever(q) == FALSE

RequeueAccepts(q) == Len(q) < MAX_QUEUE_SIZE

\* tryProcessQueue: time.Since(enqueuedAt) > QUEUE_TIMEOUT
NeverExpired(a) == FALSE

IsExpired(a) == a > QUEUE_TIMEOUT

\* scheduleJobWithQueue: time.After(QUEUE_TIMEOUT) has fired
WaitNeverTimesOut(a) == FALSE

WaitTimedOut(a) == a >= QUEUE_TIMEOUT

\* a release that writes back the value it read
NoRelease(cur, e, clamp) == cur

\* value written by a release: CurrentCPU - estimatedCPU; only the failure
\* path of scheduleJobDirect clamps at zero
ReleaseValue(cur, e, clamp) ==
  IF clamp /\ cur - e < 0 THEN 0 ELSE cur - e

\* ------------------------------------------------------------------- Init
InitCall == [pc |-> "called", est |-> 0, wk |-> NoWorker, core |-> NoWorker,
             rd |-> 0, result |-> "none", returns |-> 0]

InitQJob == [age |-> 0, seq |-> 0, respCh |-> 0, errCh |-> <<>>,
             sent |-> <<>>, rq |-> "none"]

InitRun == [pc |-> "none", async |-> FALSE, wk |-> NoWorker, rd |-> 0,
            ok |-> TRUE, core |-> NoWorker]

InitDrain == [pc |-> "idle", job |-> 0, wk |-> NoWorker, rd |-> 0,
              snap |-> <<>>, offered |-> <<>>]

InitPlace == [pre |-> 0, alone |-> FALSE]

\* main(): NewScheduler, then InitialWorkers StartWorker calls on cores 1..n.
\* The validated requests of the set J then arrive; ScheduleJob has computed
\* each estimate (callers are interchangeable, so estimates are taken in
\* non-increasing order of caller).  Q holds the settings of ENABLE_JOB_QUEUE.
InitOf(J, Q) ==
  /\ enableQueue \in Q
  /\ \E n \in InitialWorkersChoices :
       /\ workers = [c \in 1..n |-> 0]
       /\ containers = [c \in Cores |-> IF c <= n THEN 1 ELSE 0]
  /\ scheduleMux = Free
  /\ jobQueue = <<>>
  /\ stopped = FALSE
  /\ \E e \in [J -> EstimateChoices] :
       /\ \A j \in J : j > 1 => e[j - 1] >= e[j]
       /\ call = [j \in J |-> [InitCall EXCEPT !.est = e[j]]]
  /\ qjob = [j \in J |-> InitQJob]
  /\ run = [j \in J |-> InitRun]
  /\ drain = IF enableQueue THEN InitDrain ELSE [InitDrain EXCEPT !.pc = "off"]
  /\ nextSeq = 0
  /\ outstanding = [c \in Cores |-> {}]
  /\ place = [j \in J |-> InitPlace]

Init == InitOf(1..NumJobs, BOOLEAN)

\* the build with ENABLE_JOB_QUEUE = false
InitDirect == InitOf(1..DirectJobs, {FALSE})

\* --------------------------------------------------- registry primitives
\* a registration that replaces the whole map
RegisterAlone(ws, coreID) == [c \in {coreID} |-> 0]

\* StartWorker's state update: o.workers[coreID] = &WorkerInfo{CurrentCPU: 0}
Register(ws, coreID) ==
  [c \in DOMAIN ws \cup {coreID} |-> IF c = coreID THEN 0 ELSE ws[c]]

\* StartWorker succeeds when validation passes and Docker creates and starts
\* the container
StartWorkerOk(ws, coreID, dockerOk) == CanStartWorker(ws, coreID) /\ dockerOk

\* the error StartWorker returns when it does not succeed
StartWorkerErr(ws, coreID) ==
  IF coreID \notin Cores THEN "invalid_core"
  ELSE IF coreID \in DOMAIN ws THEN "core_occupied"
  ELSE "docker_failed"

\* an update that writes every worker
UpdateEveryWorker(ws, coreID, cpuPercent) == [c \in DOMAIN ws |-> cpuPercent]

\* UpdateWorkerCPU: writes only when the worker exists
UpdateWorkerCPU(ws, coreID, cpuPercent) ==
  IF coreID \in DOMAIN ws THEN [ws EXCEPT ![coreID] = cpuPercent] ELSE ws

\* a return of ScheduleJob with outcome r
Return(j, r) ==
  [call EXCEPT ![j].pc = "done", ![j].result = r, ![j].returns = @ + 1,
               ![j].rd = 0, ![j].core = NoWorker, ![j].wk = NoWorker]

Outcome(ok) == IF ok THEN "ok" ELSE "dispatch_err"

\* bookkeeping of a committed reservation of job j on worker w
Commit(j, w) ==
  /\ outstanding' = [outstanding EXCEPT ![w] = @ \cup {j}]
  /\ place' = [k \in Jobs |->
                 IF k \in outstanding[w] THEN [place[k] EXCEPT !.alone = FALSE]
                 ELSE place[k]]

\* bookkeeping of the placement observation of job j on worker w
Observe(j, w) ==
  place' = [place EXCEPT ![j] = [pre |-> workers[w],
                                  alone |-> outstanding[w] = {}]]

\* time.Since(enqueuedAt) is consulted only while the job is queued, held by
\* the drainer or awaiting requeue, and the caller's timer only while it
\* waits; the age of a job is dropped as soon as nothing measures it.
Tracked(j) == InSeq(j, jobQueue) \/ drain.job = j \/ qjob[j].rq # "none"

AgeAfterReturn(j) == IF Tracked(j) THEN qjob[j].age ELSE 0

AgeAfterDrain(j) == IF call[j].pc = "wait" THEN qjob[j].age ELSE 0

\* ------------------------------------------- ScheduleJob (caller goroutine)
\* a placement that does not wait for scheduleMux
PlaceNoLock(j) ==
  /\ call[j].pc = "called"
  /\ scheduleMux' = j
  /\ IF FindSuitableWorker(workers, call[j].est) # {}
     THEN \E w \in FindSuitableWorker(workers, call[j].est) :
            /\ call' = [call EXCEPT ![j].pc = "reserve_read", ![j].wk = w]
            /\ Observe(j, w)
     ELSE /\ call' = [call EXCEPT ![j].pc = "get_core"]
          /\ UNCHANGED place
  /\ UNCHANGED <<enableQueue, workers, containers, jobQueue, stopped, qjob,
                 run, drain, nextSeq, outstanding>>

\* s.scheduleMux.Lock(); worker := s.findSuitableWorker(estimatedCPU)
Place(j) ==
  /\ call[j].pc = "called"
  /\ scheduleMux = Free
  /\ scheduleMux' = j
  /\ IF FindSuitableWorker(workers, call[j].est) # {}
     THEN \E w \in FindSuitableWorker(workers, call[j].est) :
            /\ call' = [call EXCEPT ![j].pc = "reserve_read", ![j].wk = w]
            /\ Observe(j, w)
     ELSE /\ call' = [call EXCEPT ![j].pc = "get_core"]
          /\ UNCHANGED place
  /\ UNCHANGED <<enableQueue, workers, containers, jobQueue, stopped, qjob,
                 run, drain, nextSeq, outstanding>>

\* an error return that leaves scheduleMux locked
GetCoreKeepLock(j) ==
  /\ call[j].pc = "get_core"
  /\ LET c == GetNextAvailableCore(workers) IN
       IF c # NoWorker
       THEN call' = [call EXCEPT ![j].pc = "start_worker", ![j].core = c]
       ELSE call' = IF enableQueue
                    THEN [call EXCEPT ![j].pc = "offer"]
                    ELSE Return(j, "cannot_spawn")
  /\ UNCHANGED <<enableQueue, workers, containers, scheduleMux, jobQueue,
                 stopped, qjob, run, drain, nextSeq, outstanding, place>>

\* coreID, err := s.orchestrator.GetNextAvailableCore()
GetCore(j) ==
  /\ call[j].pc = "get_core"
  /\ LET c == GetNextAvailableCore(workers) IN
       IF c # NoWorker
       THEN /\ call' = [call EXCEPT ![j].pc = "start_worker", ![j].core = c]
            /\ UNCHANGED scheduleMux
       ELSE /\ scheduleMux' = Free
            /\ call' = IF enableQueue
                       THEN [call EXCEPT ![j].pc = "offer"]
                       ELSE Return(j, "cannot_spawn")
  /\ UNCHANGED <<enableQueue, workers, containers, jobQueue, stopped, qjob,
                 run, drain, nextSeq, outstanding, place>>

\* s.orchestrator.StartWorker(coreID), under scheduleMux
StartWorkerCall(j) ==
  /\ call[j].pc = "start_worker"
  /\ \E dockerOk \in BOOLEAN :
       IF StartWorkerOk(workers, call[j].core, dockerOk)
       THEN /\ workers' = Register(workers, call[j].core)
            /\ containers' = [containers EXCEPT ![call[j].core] = @ + 1]
            /\ call' = [call EXCEPT ![j].pc = "settle"]
            /\ UNCHANGED scheduleMux
       ELSE /\ scheduleMux' = Free
            /\ call' = IF enableQueue
                       THEN [call EXCEPT ![j].pc = "offer", ![j].core = NoWorker]
                       ELSE Return(j, StartWorkerErr(workers, call[j].core))
            /\ UNCHANGED <<workers, containers>>
  /\ UNCHANGED <<enableQueue, jobQueue, stopped, qjob, run, drain, nextSeq,
                 outstanding, place>>

\* time.Sleep(2s); worker, _ = s.orchestrator.GetWorkerByCore(coreID); then
\* the evaluation of worker.CurrentCPU+estimatedCPU
Settle(j) ==
  /\ call[j].pc = "settle"
  /\ IF call[j].core \in DOMAIN workers
     THEN /\ call' = [call EXCEPT ![j].pc = "reserve_write",
                                  ![j].wk = call[j].core,
                                  ![j].core = NoWorker,
                                  ![j].rd = workers[call[j].core]]
          /\ Observe(j, call[j].core)
          /\ UNCHANGED scheduleMux
     ELSE /\ scheduleMux' = Free
          /\ call' = IF enableQueue
                     THEN [call EXCEPT ![j].pc = "offer", ![j].core = NoWorker]
                     ELSE Return(j, "not_found")
          /\ UNCHANGED place
  /\ UNCHANGED <<enableQueue, workers, containers, jobQueue, stopped, qjob,
                 run, drain, nextSeq, outstanding>>

\* evaluation of the argument worker.CurrentCPU+estimatedCPU
ReserveRead(j) ==
  /\ call[j].pc = "reserve_read"
  /\ call' = [call EXCEPT ![j].pc = "reserve_write", ![j].rd = workers[call[j].wk]]
  /\ UNCHANGED <<enableQueue, workers, containers, scheduleMux, jobQueue,
                 stopped, qjob, run, drain, nextSeq, outstanding, place>>

\* s.orchestrator.UpdateWorkerCPU(worker.CoreID, ...); s.scheduleMux.Unlock();
\* the caller goes on to executeJobOnWorker
ReserveWrite(j) ==
  /\ call[j].pc = "reserve_write"
  /\ workers' = UpdateWorkerCPU(workers, call[j].wk, call[j].rd + call[j].est)
  /\ scheduleMux' = Free
  /\ call' = [call EXCEPT ![j].pc = "dispatch", ![j].rd = 0]
  /\ run' = [run EXCEPT ![j].pc = "exec", ![j].wk = call[j].wk]
  /\ Commit(j, call[j].wk)
  /\ UNCHANGED <<enableQueue, containers, jobQueue, stopped, qjob, drain,
                 nextSeq>>

\* queuedJob := &QueuedJob{...}; select { case s.jobQueue <- queuedJob: ... default: }
Offer(j) ==
  /\ call[j].pc = "offer"
  /\ IF OfferAccepts(jobQueue)
     THEN /\ jobQueue' = Append(jobQueue, j)
          /\ qjob' = [qjob EXCEPT ![j].seq = nextSeq + 1]
          /\ nextSeq' = nextSeq + 1
          /\ call' = [call EXCEPT ![j].pc = "wait"]
     ELSE /\ call' = Return(j, "queue_full")
          /\ UNCHANGED <<jobQueue, qjob, nextSeq>>
  /\ UNCHANGED <<enableQueue, workers, containers, scheduleMux, stopped,
                 run, drain, outstanding, place>>

\* case response := <-queuedJob.responseCh
WaitResp(j) ==
  /\ call[j].pc = "wait"
  /\ qjob[j].respCh > 0
  /\ qjob' = [qjob EXCEPT ![j].respCh = @ - 1, ![j].age = AgeAfterReturn(j)]
  /\ call' = Return(j, "ok")
  /\ UNCHANGED <<enableQueue, workers, containers, scheduleMux, jobQueue,
                 stopped, run, drain, nextSeq, outstanding, place>>

\* case err := <-queuedJob.errorCh
WaitErr(j) ==
  /\ call[j].pc = "wait"
  /\ qjob[j].errCh # <<>>
  /\ qjob' = [qjob EXCEPT ![j].errCh = Tail(@), ![j].age = AgeAfterReturn(j)]
  /\ call' = Return(j, Head(qjob[j].errCh))
  /\ UNCHANGED <<enableQueue, workers, containers, scheduleMux, jobQueue,
                 stopped, run, drain, nextSeq, outstanding, place>>

\* case <-time.After(QUEUE_TIMEOUT seconds)
WaitTimeout(j) ==
  /\ call[j].pc = "wait"
  /\ WaitTimedOut(qjob[j].age)
  /\ call' = Return(j, "queue_timeout")
  /\ qjob' = [qjob EXCEPT ![j].age = AgeAfterReturn(j)]
  /\ UNCHANGED <<enableQueue, workers, containers, scheduleMux, jobQueue,
                 stopped, run, drain, nextSeq, outstanding, place>>

\* ------------------- the goroutine dispatching a job (caller or drain task)
\* the dispatching goroutine ends: go func returns, or ScheduleJob returns
EndRun(j) ==
  /\ run' = [run EXCEPT ![j] = [InitRun EXCEPT !.pc = "finished",
                                               !.async = run[j].async]]
  /\ call' = IF run[j].async THEN call ELSE Return(j, Outcome(run[j].ok))

\* response, err := s.executeJobOnWorker(worker, req) returns; then the
\* evaluation of worker.CurrentCPU-estimatedCPU
Exec(j) ==
  /\ run[j].pc = "exec"
  /\ \E ok \in BOOLEAN :
       run' = [run EXCEPT ![j].pc = "release_write", ![j].ok = ok,
                          ![j].rd = workers[run[j].wk]]
  /\ UNCHANGED <<enableQueue, workers, containers, scheduleMux, jobQueue,
                 stopped, call, qjob, drain, nextSeq, outstanding, place>>

\* executeJobOnWorker returning a response (the worker answered 200)
ExecOk(j) == Exec(j) /\ run'[j].ok

\* the releasing UpdateWorkerCPU; scheduleJobDirect returns here on failure
ReleaseWrite(j) ==
  /\ run[j].pc = "release_write"
  /\ LET direct == ~enableQueue /\ ~run[j].async IN
     /\ workers' = UpdateWorkerCPU(workers, run[j].wk,
                     ReleaseValue(run[j].rd, call[j].est, direct /\ ~run[j].ok))
     /\ IF run[j].async
        THEN /\ run' = [run EXCEPT ![j].pc = "signal", ![j].rd = 0]
             /\ UNCHANGED call
        ELSE IF direct /\ ~run[j].ok
        THEN EndRun(j)
        ELSE /\ run' = [run EXCEPT ![j].pc = "cps", ![j].rd = 0]
             /\ UNCHANGED call
  /\ outstanding' = [outstanding EXCEPT ![run[j].wk] = @ \ {j}]
  /\ place' = [place EXCEPT ![j] = InitPlace]
  /\ UNCHANGED <<enableQueue, containers, scheduleMux, jobQueue, stopped,
                 qjob, drain, nextSeq>>

\* a send on a capacity-one sink of job j
SendErr(j, k) ==
  [qjob EXCEPT ![j].errCh = Append(@, k), ![j].sent = Append(@, k),
               ![j].age = AgeAfterDrain(j)]

SendResp(j) ==
  [qjob EXCEPT ![j].respCh = @ + 1, ![j].sent = Append(@, "ok")]

\* drain task: job.errorCh <- err  or  job.responseCh <- response
Signal(j) ==
  /\ run[j].pc = "signal"
  /\ IF run[j].ok
     THEN /\ qjob[j].respCh < 1
          /\ qjob' = SendResp(j)
     ELSE /\ Len(qjob[j].errCh) < 1
          /\ qjob' = SendErr(j, "dispatch_err")
  /\ run' = [run EXCEPT ![j].pc = "cps"]
  /\ UNCHANGED <<enableQueue, workers, containers, scheduleMux, jobQueue,
                 stopped, call, drain, nextSeq, outstanding, place>>

\* s.checkProactiveSpawn() up to GetNextAvailableCore
Cps(j) ==
  /\ run[j].pc = "cps"
  /\ IF AllBusy(workers) /\ GetNextAvailableCore(workers) # NoWorker
     THEN /\ run' = [run EXCEPT ![j].pc = "cps_start",
                                ![j].core = GetNextAvailableCore(workers)]
          /\ UNCHANGED call
     ELSE EndRun(j)
  /\ UNCHANGED <<enableQueue, workers, containers, scheduleMux, jobQueue,
                 stopped, qjob, drain, nextSeq, outstanding, place>>

\* a pre-spawn whose StartWorker error becomes the result of the call
CpsStartSurfaced(j) ==
  /\ run[j].pc = "cps_start"
  /\ \E dockerOk \in BOOLEAN :
       IF StartWorkerOk(workers, run[j].core, dockerOk)
       THEN /\ workers' = Register(workers, run[j].core)
            /\ containers' = [containers EXCEPT ![run[j].core] = @ + 1]
            /\ call' = IF run[j].async THEN call
                       ELSE Return(j, Outcome(run[j].ok))
       ELSE /\ UNCHANGED <<workers, containers>>
            /\ call' = IF run[j].async THEN call
                       ELSE Return(j, StartWorkerErr(workers, run[j].core))
  /\ run' = [run EXCEPT ![j] = [InitRun EXCEPT !.pc = "finished",
                                               !.async = run[j].async]]
  /\ UNCHANGED <<enableQueue, scheduleMux, jobQueue, stopped, qjob, drain,
                 nextSeq, outstanding, place>>

\* checkProactiveSpawn's StartWorker; its error is only logged
CpsStart(j) ==
  /\ run[j].pc = "cps_start"
  /\ \E dockerOk \in BOOLEAN :
       IF StartWorkerOk(workers, run[j].core, dockerOk)
       THEN /\ workers' = Register(workers, run[j].core)
            /\ containers' = [containers EXCEPT ![run[j].core] = @ + 1]
       ELSE UNCHANGED <<workers, containers>>
  /\ EndRun(j)
  /\ UNCHANGED <<enableQueue, scheduleMux, jobQueue, stopped, qjob, drain,
                 nextSeq, outstanding, place>>

\* ------------------------------------------ processJobQueue (the drainer)
\* case <-ticker.C: s.tryProcessQueue().  A tick that finds the queue empty
\* returns at once and leaves the state as it is, so only ticks that find a
\* job are steps.
DrainTick ==
  /\ drain.pc = "idle"
  /\ jobQueue # <<>>
  /\ drain' = [drain EXCEPT !.pc = "loop", !.snap = jobQueue]
  /\ UNCHANGED <<enableQueue, workers, containers, scheduleMux, jobQueue,
                 stopped, call, qjob, run, nextSeq, outstanding, place>>

\* case <-s.queueWorkerStop: return
DrainExit ==
  /\ drain.pc = "idle"
  /\ stopped
  /\ drain' = [drain EXCEPT !.pc = "stopped"]
  /\ UNCHANGED <<enableQueue, workers, containers, scheduleMux, jobQueue,
                 stopped, call, qjob, run, nextSeq, outstanding, place>>

\* select { case queuedJob := <-s.jobQueue: (expiry check) ... default: return }
DrainTake ==
  /\ drain.pc = "loop"
  /\ IF jobQueue = <<>>
     THEN /\ drain' = InitDrain
          /\ UNCHANGED jobQueue
     ELSE /\ jobQueue' = Tail(jobQueue)
          /\ drain' = [drain EXCEPT
                         !.pc = IF IsExpired(qjob[Head(jobQueue)].age)
                                THEN "send_expired" ELSE "lock",
                         !.job = Head(jobQueue)]
  /\ UNCHANGED <<enableQueue, workers, containers, scheduleMux, stopped,
                 call, qjob, run, nextSeq, outstanding, place>>

\* queuedJob.errorCh <- "job expired in queue"; continue
DrainSendExpired ==
  /\ drain.pc = "send_expired"
  /\ Len(qjob[drain.job].errCh) < 1
  /\ qjob' = SendErr(drain.job, "expired")
  /\ drain' = [drain EXCEPT !.pc = "loop", !.job = 0]
  /\ UNCHANGED <<enableQueue, workers, containers, scheduleMux, jobQueue,
                 stopped, call, run, nextSeq, outstanding, place>>

\* a drainer that goes on to the next queued job after a miss
DrainPlaceContinue ==
  /\ drain.pc = "lock"
  /\ scheduleMux = Free
  /\ LET j == drain.job IN
     IF FindSuitableWorker(workers, call[j].est) # {}
     THEN \E w \in FindSuitableWorker(workers, call[j].est) :
            /\ drain' = [drain EXCEPT !.pc = "reserve_read", !.wk = w,
                                      !.offered = Append(@, j)]
            /\ Observe(j, w)
            /\ scheduleMux' = Drainer
            /\ UNCHANGED qjob
     ELSE /\ qjob' = [qjob EXCEPT ![j].rq = "pending"]
          /\ drain' = [drain EXCEPT !.pc = "loop", !.job = 0]
          /\ UNCHANGED <<place, scheduleMux>>
  /\ UNCHANGED <<enableQueue, workers, containers, jobQueue, stopped, call,
                 run, nextSeq, outstanding>>

\* s.scheduleMux.Lock(); worker := s.findSuitableWorker(...); on a miss the
\* drainer unlocks, starts the requeue goroutine and ends the tick
DrainPlace ==
  /\ drain.pc = "lock"
  /\ scheduleMux = Free
  /\ LET j == drain.job IN
     IF FindSuitableWorker(workers, call[j].est) # {}
     THEN \E w \in FindSuitableWorker(workers, call[j].est) :
            /\ drain' = [drain EXCEPT !.pc = "reserve_read", !.wk = w,
                                      !.offered = Append(@, j)]
            /\ Observe(j, w)
            /\ scheduleMux' = Drainer
            /\ UNCHANGED qjob
     ELSE /\ qjob' = [qjob EXCEPT ![j].rq = "pending"]
          /\ drain' = InitDrain
          /\ UNCHANGED <<place, scheduleMux>>
  /\ UNCHANGED <<enableQueue, workers, containers, jobQueue, stopped, call,
                 run, nextSeq, outstanding>>

\* evaluation of worker.CurrentCPU+queuedJob.estimatedCPU
DrainReserveRead ==
  /\ drain.pc = "reserve_read"
  /\ drain' = [drain EXCEPT !.pc = "reserve_write", !.rd = workers[drain.wk]]
  /\ UNCHANGED <<enableQueue, workers, containers, scheduleMux, jobQueue,
                 stopped, call, qjob, run, nextSeq, outstanding, place>>

\* a drainer that ends its tick after one dispatch
DrainReserveWriteThenStop ==
  /\ drain.pc = "reserve_write"
  /\ LET j == drain.job IN
     /\ workers' = UpdateWorkerCPU(workers, drain.wk, drain.rd + call[j].est)
     /\ run' = [run EXCEPT ![j].pc = "exec", ![j].wk = drain.wk,
                           ![j].async = TRUE]
     /\ Commit(j, drain.wk)
     /\ qjob' = [qjob EXCEPT ![j].age = AgeAfterDrain(j)]
  /\ scheduleMux' = Free
  /\ drain' = InitDrain
  /\ UNCHANGED <<enableQueue, containers, jobQueue, stopped, call, nextSeq>>

\* UpdateWorkerCPU; Unlock; go func(w, job){...}(worker, queuedJob); continue
DrainReserveWrite ==
  /\ drain.pc = "reserve_write"
  /\ LET j == drain.job IN
     /\ workers' = UpdateWorkerCPU(workers, drain.wk, drain.rd + call[j].est)
     /\ run' = [run EXCEPT ![j].pc = "exec", ![j].wk = drain.wk,
                           ![j].async = TRUE]
     /\ Commit(j, drain.wk)
     /\ qjob' = [qjob EXCEPT ![j].age = AgeAfterDrain(j)]
  /\ scheduleMux' = Free
  /\ drain' = [drain EXCEPT !.pc = "loop", !.job = 0, !.wk = NoWorker, !.rd = 0]
  /\ UNCHANGED <<enableQueue, containers, jobQueue, stopped, call, nextSeq>>

\* ------------------------------------------------- the requeue goroutine
\* a requeue that puts the job back and also fails it
RequeueSendAndFail(j) ==
  /\ qjob[j].rq # "none"
  /\ RequeueAccepts(jobQueue)
  /\ jobQueue' = Append(jobQueue, j)
  /\ qjob' = [qjob EXCEPT ![j].rq = "none",
                          ![j].errCh = Append(@, "requeue_failed"),
                          ![j].sent = Append(@, "requeue_failed")]
  /\ UNCHANGED <<enableQueue, workers, containers, scheduleMux, stopped,
                 call, run, drain, nextSeq, outstanding, place>>

\* a requeue that stamps the job anew
RequeueSendFresh(j) ==
  /\ qjob[j].rq # "none"
  /\ RequeueAccepts(jobQueue)
  /\ jobQueue' = Append(jobQueue, j)
  /\ qjob' = [qjob EXCEPT ![j].rq = "none", ![j].age = 0]
  /\ UNCHANGED <<enableQueue, workers, containers, scheduleMux, stopped,
                 call, run, drain, nextSeq, outstanding, place>>

\* case s.jobQueue <- job
RequeueSend(j) ==
  /\ qjob[j].rq # "none"
  /\ RequeueAccepts(jobQueue)
  /\ jobQueue' = Append(jobQueue, j)
  /\ qjob' = [qjob EXCEPT ![j].rq = "none"]
  /\ UNCHANGED <<enableQueue, workers, containers, scheduleMux, stopped,
                 call, run, drain, nextSeq, outstanding, place>>

\* a requeue that gives up without signalling the job's sink
RequeueDrop(j) ==
  /\ qjob[j].rq = "pending"
  /\ ~RequeueAccepts(jobQueue)
  /\ qjob' = [qjob EXCEPT ![j].rq = "none"]
  /\ UNCHANGED <<enableQueue, workers, containers, scheduleMux, jobQueue,
                 stopped, call, run, drain, nextSeq, outstanding, place>>

\* case <-time.After(1 * time.Second): job.errorCh <- "failed to requeue job".
\* The grace is far below one tick; it can only elapse while the send is
\* blocked, that is while the queue is full.
RequeueTimeout(j) ==
  /\ qjob[j].rq = "pending"
  /\ ~RequeueAccepts(jobQueue)
  /\ Len(qjob[j].errCh) < 1
  /\ qjob' = [SendErr(j, "requeue_failed") EXCEPT ![j].rq = "none"]
  /\ UNCHANGED <<enableQueue, workers, containers, scheduleMux, jobQueue,
                 stopped, call, run, drain, nextSeq, outstanding, place>>

\* ------------------------------------------------------------ environment
\* a job whose deadline is still being measured
Timed(j) == call[j].pc = "wait" \/ Tracked(j)

\* one tick of time: timed jobs age (saturating just above QUEUE_TIMEOUT)
Tick ==
  /\ \E j \in Jobs : Timed(j) /\ qjob[j].age <= QUEUE_TIMEOUT
  /\ qjob' = [j \in Jobs |->
                IF Timed(j)
                THEN [qjob[j] EXCEPT !.age = Min(@ + 1, QUEUE_TIMEOUT + 1)]
                ELSE qjob[j]]
  /\ UNCHANGED <<enableQueue, workers, containers, scheduleMux, jobQueue,
                 stopped, call, run, drain, nextSeq, outstanding, place>>

\* StopQueueProcessor: close(s.queueWorkerStop)
StopQueueProcessor ==
  /\ enableQueue
  /\ ~stopped
  /\ stopped' = TRUE
  /\ UNCHANGED <<enableQueue, workers, containers, scheduleMux, jobQueue,
                 call, qjob, run, drain, nextSeq, outstanding, place>>

\* ------------------------------------------------------------ behaviours
CallerStep(j) ==
  \/ Place(j) \/ GetCore(j) \/ StartWorkerCall(j) \/ Settle(j)
  \/ ReserveRead(j) \/ ReserveWrite(j)
  \/ Offer(j) \/ WaitResp(j) \/ WaitErr(j) \/ WaitTimeout(j)

RunStep(j) ==
  \/ Exec(j) \/ ReleaseWrite(j) \/ Signal(j) \/ Cps(j) \/ CpsStart(j)

DrainStep ==
  \/ DrainTick \/ DrainExit \/ DrainTake \/ DrainSendExpired \/ DrainPlace
  \/ DrainReserveRead \/ DrainReserveWrite

RequeueStep(j) == RequeueSend(j) \/ RequeueTimeout(j)

Next ==
  \/ \E j \in 1..NumJobs : CallerStep(j)
  \/ \E j \in 1..NumJobs : RunStep(j)
  \/ DrainStep
  \/ \E j \in 1..NumJobs : RequeueStep(j)
  \/ Tick
  \/ StopQueueProcessor

Spec == Init /\ [][Next]_vars

\* The build with ENABLE_JOB_QUEUE = false: ScheduleJob is scheduleJobDirect,
\* there is no queue, no drainer and no StopQueueProcessor effect.
DirectNext ==
  \E j \in 1..DirectJobs :
    \/ Place(j) \/ GetCore(j) \/ StartWorkerCall(j) \/ Settle(j)
    \/ ReserveRead(j) \/ ReserveWrite(j)
    \/ Exec(j) \/ ReleaseWrite(j) \/ Cps(j) \/ CpsStart(j)

DirectSpec == InitDirect /\ [][DirectNext]_vars

\* Scheduling assumed for liveness: a goroutine that can step eventually
\* does (callers and dispatchers take finitely many steps, so fairness of
\* their union suffices), time passes, the drainer does not stop while it
\* holds scheduleMux, and sync.Mutex hands the lock to a waiter that keeps
\* asking (starvation mode), hence strong fairness for lock acquisition.
\* Nothing is assumed about how often the drainer ticks.
FairSpec ==
  /\ Spec
  /\ SF_vars(\E j \in Jobs : Place(j))
  /\ WF_vars(\E j \in Jobs : CallerStep(j) \/ RunStep(j))
  /\ WF_vars(DrainReserveRead \/ DrainReserveWrite)
  /\ WF_vars(Tick)

\* The queue-drain scenario: ENABLE_JOB_QUEUE = true, every core has a worker
\* on which one cpu_load 70 job placed by ScheduleJob is executing (its
\* reservation written, its caller in executeJobOnWorker), and QueuedJobs
\* further requests of cpu_load 20 have missed (70 + 20 > 80, no free core)
\* and are waiting in the queue.
ScenarioJobs == Cardinality(Cores) + QueuedJobs

ScenarioInit ==
  /\ enableQueue = TRUE
  /\ workers = [c \in Cores |-> 70]
  /\ containers = [c \in Cores |-> 1]
  /\ scheduleMux = Free
  /\ jobQueue = [i \in 1..QueuedJobs |-> Cardinality(Cores) + i]
  /\ stopped = FALSE
  /\ call = [j \in 1..ScenarioJobs |->
               IF j \in Cores
               THEN [InitCall EXCEPT !.pc = "dispatch", !.est = 70, !.wk = j]
               ELSE [InitCall EXCEPT !.pc = "wait", !.est = 20]]
  /\ qjob = [j \in 1..ScenarioJobs |->
               IF j \in Cores THEN InitQJob
               ELSE [InitQJob EXCEPT !.seq = j - Cardinality(Cores)]]
  /\ run = [j \in 1..ScenarioJobs |->
              IF j \in Cores
              THEN [InitRun EXCEPT !.pc = "exec", !.wk = j]
              ELSE InitRun]
  /\ drain = InitDrain
  /\ nextSeq = QueuedJobs
  /\ outstanding = [c \in Cores |-> {c}]
  /\ place = [j \in 1..ScenarioJobs |->
                IF j \in Cores THEN [pre |-> 0, alone |-> TRUE]
                ELSE InitPlace]

\* The jobs of the scenario run for less than QUEUE_TIMEOUT (load_time of a
\* few seconds against 30), so no deadline elapses: time does not tick.  No
\* further request arrives; no core is free, so nothing is provisioned; the
\* workers answer every dispatch.
ScenarioNext ==
  \/ \E j \in 1..ScenarioJobs : WaitResp(j)
  \/ \E j \in 1..ScenarioJobs :
       \/ ExecOk(j) \/ ReleaseWrite(j) \/ Signal(j) \/ Cps(j)
  \/ DrainTick \/ DrainTake \/ DrainPlace \/ DrainReserveRead
  \/ DrainReserveWrite
  \/ \E j \in 1..ScenarioJobs : RequeueSend(j)

ScenarioSpec == ScenarioInit /\ [][ScenarioNext]_vars

\* Scheduling assumed for the drain: a goroutine that can step eventually
\* does, the ticker keeps firing (processJobQueue is running), and a requeue
\* goroutine whose send can proceed performs it.
FairScenarioSpec ==
  /\ ScenarioSpec
  /\ WF_vars(\E j \in Jobs : CallerStep(j) \/ RunStep(j))
  /\ WF_vars(DrainTick \/ DrainTake \/ DrainPlace \/ DrainReserveRead
               \/ DrainReserveWrite)
  /\ WF_vars(\E j \in Jobs : RequeueSend(j))

\* The auto-scaling burst (cpu_load.go, Test 6): one idle worker on core 1
\* (InitialWorkers = 1), three concurrent submissions of cpu_load 70, with
\* either setting of ENABLE_JOB_QUEUE, and a Docker daemon that creates and
\* starts every container it is asked for.
StartWorkerDockerOk(j) ==
  StartWorkerCall(j) /\ (workers' # workers \/ call[j].core \in DOMAIN workers)

\* one submission per catalogue slot
BurstJobs == Cardinality(Cores)

BurstInit ==
  /\ enableQueue \in BOOLEAN
  /\ workers = [c \in {1} |-> 0]
  /\ containers = [c \in Cores |-> IF c = 1 THEN 1 ELSE 0]
  /\ scheduleMux = Free
  /\ jobQueue = <<>>
  /\ stopped = FALSE
  /\ call = [j \in 1..BurstJobs |-> [InitCall EXCEPT !.est = 70]]
  /\ qjob = [j \in 1..BurstJobs |-> InitQJob]
  /\ run = [j \in 1..BurstJobs |-> InitRun]
  /\ drain = IF enableQueue THEN InitDrain ELSE [InitDrain EXCEPT !.pc = "off"]
  /\ nextSeq = 0
  /\ outstanding = [c \in Cores |-> {}]
  /\ place = [j \in 1..BurstJobs |-> InitPlace]

\* every step of Next that the burst can take (a drained job always finds the
\* worker whose pre-spawn made it lose its slot, so nothing is requeued)
BurstNext ==
  \/ \E j \in 1..BurstJobs :
       \/ Place(j) \/ GetCore(j) \/ StartWorkerDockerOk(j) \/ Settle(j)
       \/ ReserveRead(j) \/ ReserveWrite(j)
       \/ Offer(j) \/ WaitResp(j) \/ WaitErr(j) \/ WaitTimeout(j)
  \/ \E j \in 1..BurstJobs : RunStep(j)
  \/ DrainStep
  \/ Tick
  \/ StopQueueProcessor

BurstSpec == BurstInit /\ [][BurstNext]_vars

\* ------------------------------------------------------------------ claims
\* C1 Threshold safety: immediately after every reservation write, by a
\* ScheduleJob call (on an existing or a just provisioned worker) or by the
\* drainer, the reserving worker's CurrentCPU is at most MaxCPUThreshold.
ThresholdSafety ==
  [][ /\ \A j \in Jobs :
           (call[j].pc = "reserve_write" /\ call'[j].pc = "dispatch")
             => workers'[call[j].wk] <= MaxCPUThreshold
      /\ (drain.pc = "reserve_write" /\ drain'.pc = "loop")
             => workers'[drain.wk] <= MaxCPUThreshold ]_vars

\* C2 Non-negative reservation: every worker's CurrentCPU is >= 0 in every
\* reachable state.
NonNegativeReservation == \A c \in DOMAIN workers : workers[c] >= 0

\* C3 Exactly-once result: a ScheduleJob call never returns twice, it has
\* returned exactly once when it is done, and every call eventually returns
\* (the queued wait is bounded by QUEUE_TIMEOUT).
ExactlyOnceResult ==
  /\ [](\A j \in Jobs : /\ call[j].returns <= 1
                        /\ (call[j].pc = "done") <=> (call[j].returns = 1)
                        /\ (call[j].pc = "done") <=> (call[j].result # "none"))
  /\ <>(\A j \in Jobs : call[j].pc = "done")

\* a queued caller returned on its own timeout, its sink never signalled
ReturnedOnOwnTimeout ==
  \E j \in Jobs : /\ call[j].result = "queue_timeout"
                  /\ qjob[j].sent = <<>>
                  /\ drain.pc = "stopped"

\* C4 Slot uniqueness: at most one container is ever started per core, and
\* the registry holds exactly the cores with a started container.
SlotUniqueness ==
  \A c \in Cores : /\ containers[c] <= 1
                   /\ (c \in DOMAIN workers) <=> (containers[c] = 1)

\* a placement lost the race for its slot to a concurrent pre-spawn:
\* StartWorker refused the occupied core
LostProvisioningRace ==
  \E j \in Jobs : /\ call[j].result = "core_occupied"
                  /\ \E c \in Cores : c > 1 /\ containers[c] = 1

\* C5 Rollback completeness: when a failed dispatch releases and no other
\* job's reservation was outstanding on the worker since the placement, the
\* worker's CurrentCPU is back at its pre-placement value.
RollbackCompleteness ==
  [][ \A j \in Jobs :
        ( /\ run[j].pc = "release_write"
          /\ run'[j].pc # "release_write"
          /\ ~run[j].ok
          /\ place[j].alone )
        => workers'[run[j].wk] = place[j].pre ]_vars

\* C6 Reservation accounting: every worker's CurrentCPU equals the sum of the
\* estimates of the jobs reserved on it and not yet released.
ReservationAccounting ==
  \A c \in DOMAIN workers : workers[c] = SumEst(outstanding[c], call)

\* C7 FIFO within a tick: when the drainer offers job b to placement, every
\* unexpired job a that was in the queue at the start of the tick together
\* with b and was enqueued before b has already been offered in this tick.
FifoWithinTick ==
  [][ (drain.pc = "lock" /\ drain'.pc # "lock") =>
        \A a \in Jobs :
          ( /\ InSeq(a, drain.snap)
            /\ InSeq(drain.job, drain.snap)
            /\ qjob[a].seq < qjob[drain.job].seq
            /\ ~(qjob[a].age > QUEUE_TIMEOUT)
            /\ ~(qjob[drain.job].age > QUEUE_TIMEOUT) )
          => InSeq(a, drain.offered) ]_vars

\* C8 Queue full: an offer made while the queue holds MAX_QUEUE_SIZE jobs
\* returns the queue-full error at once and changes neither the queue nor
\* any worker's CurrentCPU.
QueueFullRejects ==
  [][ \A j \in Jobs :
        ( /\ call[j].pc = "offer"
          /\ Len(jobQueue) >= MAX_QUEUE_SIZE
          /\ call'[j] # call[j] )
        => /\ call'[j].pc = "done"
           /\ call'[j].result = "queue_full"
           /\ call'[j].returns = 1
           /\ jobQueue' = jobQueue
           /\ workers' = workers
           /\ qjob' = qjob ]_vars

\* a caller was rejected with queue full
SomeQueueFull == \E j \in Jobs : call[j].result = "queue_full"

\* C9 Bounded queue: the job queue never holds more than MAX_QUEUE_SIZE jobs.
BoundedQueue == Len(jobQueue) >= 0 /\ Len(jobQueue) <= MAX_QUEUE_SIZE

\* the queue is full while a requeue attempt is pending
FullQueueWithRequeuePending ==
  /\ Len(jobQueue) = MAX_QUEUE_SIZE
  /\ \E j \in Jobs : qjob[j].rq # "none"

\* C10 Queue expiry in the drainer: a dequeued job older than QUEUE_TIMEOUT
\* is signalled "expired" on its error sink, is never reserved or dispatched,
\* and the drainer goes on with the next queued job of the same tick.
DrainerExpiry ==
  [][ /\ ( /\ drain.pc = "loop"
           /\ jobQueue # <<>>
           /\ qjob[Head(jobQueue)].age > QUEUE_TIMEOUT
           /\ drain' # drain )
         => /\ drain'.pc = "send_expired"
            /\ drain'.job = Head(jobQueue)
            /\ workers' = workers
            /\ run' = run
            /\ outstanding' = outstanding
      /\ (drain.pc = "send_expired" /\ drain' # drain)
         => /\ qjob'[drain.job].errCh = <<"expired">>
            /\ drain'.pc = "loop"
            /\ workers' = workers
            /\ run' = run
            /\ outstanding' = outstanding
      /\ \A j \in Jobs :
           InSeq("expired", qjob'[j].sent)
             => /\ run'[j].pc = "none"
                /\ \A c \in Cores : j \notin outstanding'[c] ]_vars

\* the drainer expired a job and took the next one in the same tick
ExpiredThenNext ==
  \E j \in Jobs : /\ InSeq("expired", qjob[j].sent)
                  /\ drain.pc = "lock"
                  /\ InSeq(j, drain.snap)

\* C11 Queued-path state machine: a job whose caller received the
\* queue-timeout or the queue-expired error has never been reserved on or
\* dispatched to a worker, and never is afterwards.
ExpiryExcludesDispatch ==
  \A j \in Jobs :
    call[j].result \in {"queue_timeout", "expired"} => run[j].pc = "none"

\* C12 Single-shot sink: at most one value is ever sent to a queued job's
\* sinks (responseCh and errorCh together); a finished dispatch, a
\* drain-detected expiry and a requeue failure each account for exactly one;
\* and whenever a sender is about to send, both sinks are empty, so no sender
\* blocks, also after the caller returned on its own timeout.
SingleShotSink ==
  \A j \in Jobs :
    /\ Len(qjob[j].sent) <= 1
    /\ qjob[j].respCh + Len(qjob[j].errCh) <= Len(qjob[j].sent)
    /\ (run[j].async /\ run[j].pc \in {"cps", "cps_start", "finished"})
         => Len(qjob[j].sent) = 1
    /\ (run[j].pc = "signal" \/ drain.job = j \/ qjob[j].rq # "none"
          \/ InSeq(j, jobQueue))
         => qjob[j].sent = <<>>

\* the caller returned on its own timeout and the sink was signalled later,
\* by the finished dispatch
SignalledAfterCallerLeft ==
  \E j \in Jobs : /\ call[j].result = "queue_timeout"
                  /\ run[j].pc = "finished"
                  /\ Len(qjob[j].sent) = 1

\* C13 No capacity without queue: with queuing disabled, a call returns the
\* no-capacity error only when no worker is eligible for its estimate and
\* every core is occupied, it does return it when its placement missed and
\* no core is free, and the rejecting step starts no worker and changes no
\* CurrentCPU.
NoCapacityWithoutQueue ==
  [][ \A j \in Jobs :
        /\ ( /\ ~enableQueue
             /\ call[j].result = "none"
             /\ call'[j].result = "cannot_spawn" )
           => /\ FindSuitableWorker(workers, call[j].est) = {}
              /\ GetNextAvailableCore(workers) = NoWorker
              /\ workers' = workers
              /\ containers' = containers
        /\ ( /\ ~enableQueue
             /\ call[j].pc = "get_core"
             /\ call'[j] # call[j]
             /\ GetNextAvailableCore(workers) = NoWorker )
           => call'[j].result = "cannot_spawn" ]_vars

\* C14 Placement selection: whenever findSuitableWorker returns a worker to
\* ScheduleJob or to the drainer, that worker satisfies CurrentCPU + estimate
\* <= MaxCPUThreshold and has the minimum CurrentCPU among all workers that
\* do; it returns none exactly when no worker satisfies the bound.
PlacementSelection ==
  [][ /\ \A j \in Jobs :
           /\ (call[j].pc = "called" /\ call'[j].pc = "reserve_read")
                => /\ call'[j].wk \in DOMAIN workers
                   /\ workers[call'[j].wk] + call[j].est <= MaxCPUThreshold
                   /\ \A d \in DOMAIN workers :
                        workers[d] + call[j].est <= MaxCPUThreshold
                          => workers[call'[j].wk] <= workers[d]
           /\ (call[j].pc = "called" /\ call'[j].pc = "get_core")
                => \A d \in DOMAIN workers :
                     workers[d] + call[j].est > MaxCPUThreshold
           /\ (call[j].pc = "called" /\ call'[j] # call[j])
                => call'[j].pc \in {"reserve_read", "get_core"}
      /\ (drain.pc = "lock" /\ drain'.pc = "reserve_read")
           => /\ drain'.wk \in DOMAIN workers
              /\ workers[drain'.wk] + call[drain.job].est <= MaxCPUThreshold
              /\ \A d \in DOMAIN workers :
                   workers[d] + call[drain.job].est <= MaxCPUThreshold
                     => workers[drain'.wk] <= workers[d]
      /\ (drain.pc = "lock" /\ drain'.pc = "idle")
           => \A d \in DOMAIN workers :
                workers[d] + call[drain.job].est > MaxCPUThreshold ]_vars

\* a placement chose among eligible workers of different load
ChoseLeastLoaded ==
  \E j \in Jobs :
    /\ call[j].pc = "reserve_read"
    /\ \E d \in DOMAIN workers :
         /\ workers[d] > workers[call[j].wk]
         /\ workers[d] + call[j].est <= MaxCPUThreshold

\* C15 Deterministic tie-break: whenever a placement (by ScheduleJob or by
\* the drainer) selects a worker, no eligible worker with the same CurrentCPU
\* has a lower core ID.
DeterministicTieBreak ==
  [][ /\ \A j \in Jobs :
           (call[j].pc = "called" /\ call'[j].pc = "reserve_read")
             => \A d \in DOMAIN workers :
                  ( /\ workers[d] + call[j].est <= MaxCPUThreshold
                    /\ workers[d] = workers[call'[j].wk] )
                  => call'[j].wk <= d
      /\ (drain.pc = "lock" /\ drain'.pc = "reserve_read")
           => \A d \in DOMAIN workers :
                ( /\ workers[d] + call[drain.job].est <= MaxCPUThreshold
                  /\ workers[d] = workers[drain'.wk] )
                => drain'.wk <= d ]_vars

\* C16 Provision on miss: a placement of ScheduleJob starts a worker only
\* after its own findSuitableWorker missed; when no worker is eligible and a
\* core is free at its StartWorker call, it starts exactly one worker, on the
\* lowest free core (unless Docker fails on that free core); it then reserves
\* the estimate on the new worker (CurrentCPU 0 + estimate) and dispatches
\* the job to it.
ProvisionOnMiss ==
  [][ \A j \in Jobs :
        /\ ( /\ call[j].pc = "start_worker"
             /\ call'[j] # call[j]
             /\ FindSuitableWorker(workers, call[j].est) = {}
             /\ GetNextAvailableCore(workers) # NoWorker )
           => LET c == GetNextAvailableCore(workers) IN
              \/ /\ workers' = Register(workers, c)
                 /\ containers' = [containers EXCEPT ![c] = @ + 1]
                 /\ call'[j].pc = "settle"
                 /\ call'[j].core = c
              \/ /\ call[j].core \notin DOMAIN workers
                 /\ workers' = workers
                 /\ containers' = containers
        /\ (call[j].pc = "settle" /\ call'[j] # call[j])
           => /\ call'[j].pc = "reserve_write"
              /\ call'[j].wk = call[j].core
              /\ call'[j].rd = 0
        /\ (call[j].pc = "reserve_write" /\ call'[j] # call[j])
           => /\ workers'[call[j].wk] = call[j].rd + call[j].est
              /\ run'[j].pc = "exec"
              /\ run'[j].wk = call[j].wk
        /\ ( /\ call[j].pc = "called"
             /\ call'[j] # call[j]
             /\ FindSuitableWorker(workers, call[j].est) # {} )
           => call'[j].pc = "reserve_read"
        /\ ( /\ call'[j] # call[j]
             /\ containers' # containers
             /\ run[j].pc # "cps_start" )
           => call[j].pc = "start_worker" ]_vars

\* C17 Provisioning failures reach the caller: whenever StartWorker returns
\* an error during a placement attempt of ScheduleJob, that call returns
\* that provisioning error to its caller, with the queue enabled as well as
\* disabled; the job is not queued or dispatched instead.
ProvisioningFailureSurfaced ==
  [][ \A j \in Jobs :
        ( /\ call[j].pc = "start_worker"
          /\ call'[j] # call[j]
          /\ workers' = workers )
        => /\ call'[j].pc = "done"
           /\ call'[j].result = StartWorkerErr(workers, call[j].core)
           /\ jobQueue' = jobQueue ]_vars

PreSpawnFailureSwallowed ==
  [][ \A j \in Jobs :
        (run[j].pc = "cps_start" /\ run'[j] # run[j])
        => /\ run[j].core \in DOMAIN workers
                => (workers' = workers /\ containers' = containers)
           /\ containers' = containers => workers' = workers
           /\ \A c \in DOMAIN workers :
                c \in DOMAIN workers' /\ workers'[c] = workers[c]
           /\ IF run[j].async
              THEN call' = call /\ qjob' = qjob
              ELSE /\ call'[j].pc = "done"
                   /\ call'[j].result = (IF run[j].ok THEN "ok"
                                         ELSE "dispatch_err")
                   /\ call'[j].returns = call[j].returns + 1 ]_vars

\* a pre-spawn of a successfully dispatched call that is about to fail: the
\* core it chose at its check has been taken by another StartWorker
PreSpawnSlotTaken ==
  \E j \in Jobs :
    /\ run[j].pc = "cps_start"
    /\ ~run[j].async
    /\ run[j].ok
    /\ run[j].core \in DOMAIN workers

\* C20 Shutdown: once StopQueueProcessor has closed queueWorkerStop, the
\* drainer starts no further tick, ScheduleJob puts no new job into the
\* queue, and every dispatch in flight still completes and releases its
\* reservation.
ShutdownQuiesces ==
  /\ [][ stopped => /\ ~(drain.pc = "idle" /\ drain'.pc = "loop")
                    /\ \A j \in Jobs :
                         (call[j].pc = "offer" /\ call'[j] # call[j])
                         => jobQueue' = jobQueue ]_vars
  /\ \A j \in 1..NumJobs :
       (stopped /\ run[j].pc \in {"exec", "release_write"})
       ~> (run[j].pc \notin {"exec", "release_write"})

AutoScalingBurst ==
  /\ [](LET Placed == {j \in Jobs : run[j].pc \in {"exec", "release_write"}}
        IN (\A j \in Jobs : run[j].pc \in {"none", "exec", "release_write"})
           => /\ jobQueue = <<>>
              /\ \A j \in Jobs : call[j].pc \notin {"offer", "wait", "done"}
              /\ {run[j].wk : j \in Placed} = 1..Cardinality(Placed)
              /\ \A j \in Placed : workers[run[j].wk] = call[j].est
              /\ \A c \in Cores :
                   containers[c] = IF c \in DOMAIN workers THEN 1 ELSE 0
              /\ Cardinality(Placed) = BurstJobs => DOMAIN workers = Cores)
  /\ [][DOMAIN workers \subseteq DOMAIN workers']_vars

\* all three jobs placed and none completed: three workers at 70
BurstPlaced ==
  /\ \A j \in Jobs : run[j].pc = "exec" /\ call[j].est = 70
  /\ workers = [c \in Cores |-> 70]

\* C23 Reservation ordering: a job's dispatch starts only with its
\* reservation write (CurrentCPU read + estimate) on the chosen worker; while
\* the dispatch runs the reservation stands; when executeJobOnWorker has
\* returned, with a response or an error, exactly one release write for the
\* job follows on the same worker (read - estimate, clamped at 0 only on
\* scheduleJobDirect's failure path); the job is dispatched once and nothing
\* is released before or after that.
ReservationOrdering ==
  /\ [](\A j \in Jobs :
          /\ run[j].pc \in {"exec", "release_write"}
               => /\ run[j].wk \in DOMAIN workers
                  /\ j \in outstanding[run[j].wk]
          /\ run[j].pc \notin {"exec", "release_write"}
               => \A c \in Cores : j \notin outstanding[c])
  /\ [][ \A j \in Jobs :
          /\ (run'[j].pc = "exec" /\ run[j].pc # "exec")
               => /\ run[j].pc = "none"
                  /\ workers'[run'[j].wk]
                       = (IF drain.job = j THEN drain.rd ELSE call[j].rd)
                         + call[j].est
          /\ (run[j].pc = "exec" /\ run'[j] # run[j])
               => /\ run'[j].pc = "release_write"
                  /\ workers' = workers
          /\ (run[j].pc = "release_write" /\ run'[j] # run[j])
               => /\ run'[j].pc \in {"signal", "cps", "finished"}
                  /\ workers' =
                       [workers EXCEPT ![run[j].wk] =
                          IF /\ ~enableQueue /\ ~run[j].async /\ ~run[j].ok
                             /\ run[j].rd - call[j].est < 0
                          THEN 0 ELSE run[j].rd - call[j].est]
          /\ run[j].pc \in {"signal", "cps", "cps_start", "finished"}
               => run'[j].pc \in {"signal", "cps", "cps_start", "finished"}
        ]_vars

\* a drained job whose dispatch failed has released before signalling
ReleasedAfterFailure ==
  \E j \in Jobs :
    /\ run[j].pc = "signal"
    /\ ~run[j].ok
    /\ \A c \in Cores : j \notin outstanding[c]

\* C24 Linearized placement: from its findSuitableWorker to its reservation
\* write a placement (of ScheduleJob or of the drainer) holds scheduleMux, at
\* most one placement is in that section, no other placement evaluates
\* eligibility or commits a reservation meanwhile, and every reservation is
\* committed by the holder of scheduleMux.
LinearizedPlacement ==
  /\ [](LET InSection ==
              {j \in Jobs : call[j].pc \in {"get_core", "start_worker",
                                            "settle", "reserve_read",
                                            "reserve_write"}}
            DrainIn == drain.pc \in {"reserve_read", "reserve_write"}
        IN /\ Cardinality(InSection) + (IF DrainIn THEN 1 ELSE 0) <= 1
           /\ \A j \in InSection : scheduleMux = j
           /\ DrainIn => scheduleMux = Drainer
           /\ scheduleMux = Free => (InSection = {} /\ ~DrainIn))
  /\ [][ /\ \A j \in Jobs :
              (call[j].pc = "called" /\ call'[j] # call[j])
              => (scheduleMux = Free /\ scheduleMux' = j)
         /\ (drain.pc = "lock" /\ drain' # drain) => scheduleMux = Free
         /\ \A c \in Cores : \A j \in outstanding'[c] \ outstanding[c] :
              \/ scheduleMux = j /\ call[j].pc = "reserve_write"
              \/ /\ scheduleMux = Drainer
                 /\ drain.job = j
                 /\ drain.pc = "reserve_write" ]_vars

\* a ScheduleJob call between its observation and its reservation write
\* while the drainer waits for scheduleMux with a dequeued job and another
\* call has not placed yet
PlacementWhileOthersWait ==
  \E j \in Jobs :
    /\ call[j].pc = "reserve_write"
    /\ scheduleMux = j
    /\ drain.pc = "lock"
    /\ \E k \in Jobs : call[k].pc = "called"

\* C25 No slow operation under the lock: a ScheduleJob call does not hold
\* scheduleMux while its StartWorker is pending, during the settle wait
\* after it, or while its dispatch runs.
NoSlowOperationUnderLock ==
  \A j \in Jobs :
    scheduleMux = j
    => /\ call[j].pc \notin {"start_worker", "settle"}
       /\ run[j].pc # "exec"

\* C26 Stop on miss: when the drainer's findSuitableWorker misses for the
\* dequeued job, the drainer hands the job to a requeue goroutine and ends
\* the tick (it dequeues nothing more until the next tick), leaving the
\* queue, the lock and the registry as they are; no step of the drainer
\* starts a worker, even when a core is free.
StopOnMiss ==
  [][ /\ ( /\ drain.pc = "lock"
           /\ drain' # drain
           /\ FindSuitableWorker(workers, call[drain.job].est) = {} )
         => /\ drain'.pc = "idle"
            /\ drain'.job = 0
            /\ qjob'[drain.job].rq = "pending"
            /\ jobQueue' = jobQueue
            /\ scheduleMux' = Free
            /\ run' = run
      /\ drain' # drain => DOMAIN workers' = DOMAIN workers
      /\ drain' # drain => containers' = containers
      /\ (drain.pc = "idle" /\ jobQueue' # jobQueue)
         => Len(jobQueue') > Len(jobQueue) ]_vars

\* after a miss: the job awaits its requeue, the tick is over, another job
\* is still queued and a core is free
MissedWithFreeSlot ==
  \E j \in Jobs :
    /\ qjob[j].rq = "pending"
    /\ drain.pc = "idle"
    /\ jobQueue # <<>>
    /\ Cores \ DOMAIN workers # {}

\* C27 Requeue keeps order across ticks: a requeue puts the job back at the
\* front of the queue, and whenever the drainer dequeues a job, no job that
\* was enqueued earlier (lower enqueuedAt) is still queued or awaiting its
\* requeue.
RequeueKeepsOrder ==
  [][ /\ \A j \in Jobs :
           (qjob[j].rq = "pending" /\ jobQueue' # jobQueue
            /\ qjob'[j].rq = "none")
           => jobQueue' = <<j>> \o jobQueue
      /\ (drain.pc = "loop" /\ drain'.job # 0)
         => \A k \in Jobs :
              (InSeq(k, jobQueue') \/ qjob[k].rq = "pending")
              => qjob[drain'.job].seq < qjob[k].seq ]_vars

\* C28 No silent loss: a job that has been enqueued is, in every state, in
\* the queue, in the drainer's hands, awaiting its requeue, reserved and being
\* dispatched by its drain task, or has had its sink signalled; a requeue
\* step either puts the job back and signals nothing, or (the queue being
\* full) signals "failed to requeue job" on the job's error sink.
NoSilentLoss ==
  /\ [](\A j \in Jobs :
          qjob[j].seq > 0
          => \/ InSeq(j, jobQueue)
             \/ drain.job = j
             \/ qjob[j].rq = "pending"
             \/ run[j].pc \in {"exec", "release_write", "signal"}
             \/ qjob[j].sent # <<>>)
  /\ [][ \A j \in Jobs :
          (qjob[j].rq = "pending" /\ qjob'[j].rq = "none")
          => \/ /\ jobQueue' = Append(jobQueue, j)
                /\ qjob'[j].sent = qjob[j].sent
                /\ qjob'[j].errCh = qjob[j].errCh
             \/ /\ Len(jobQueue) = MAX_QUEUE_SIZE
                /\ jobQueue' = jobQueue
                /\ qjob'[j].sent = Append(qjob[j].sent, "requeue_failed")
                /\ qjob'[j].errCh = Append(qjob[j].errCh, "requeue_failed")
        ]_vars

\* a job whose requeue failed and whose caller was told so
RequeueFailureReported ==
  \E j \in Jobs :
    /\ qjob[j].sent = <<"requeue_failed">>
    /\ call[j].result = "requeue_failed"

\* C29 Asynchronous drain dispatch: with its reservation write the drainer
\* unlocks, starts the job's own task and goes straight back to its dequeue
\* loop in the same tick; the dispatch, the release write and the sink signal
\* of a drained job are steps of that task, not of the drainer.
AsyncDrainDispatch ==
  [][ /\ (drain.pc = "reserve_write" /\ drain' # drain)
         => /\ drain'.pc = "loop"
            /\ drain'.snap = drain.snap
            /\ scheduleMux' = Free
            /\ run'[drain.job].pc = "exec"
            /\ run'[drain.job].async
            /\ run'[drain.job].wk = drain.wk
      /\ \A j \in Jobs :
           (run[j].async /\ run'[j] # run[j])
           => /\ drain' = drain
              /\ scheduleMux' = scheduleMux
      /\ \A j \in Jobs :
           ( /\ qjob'[j].sent # qjob[j].sent
             /\ qjob'[j].sent[Len(qjob'[j].sent)] \in {"ok", "dispatch_err"} )
           => /\ run[j].async
              /\ run[j].pc = "signal"
              /\ \A c \in Cores : j \notin outstanding[c] ]_vars

\* the drainer about to reserve for a second job of the tick while the
\* first job it dispatched in this tick is still executing
DrainedWhileInFlight ==
  \E j \in Jobs :
    /\ run[j].async
    /\ run[j].pc = "exec"
    /\ InSeq(j, drain.offered)
    /\ drain.pc = "reserve_write"
    /\ drain.job # j

\* C30 Lost provisioning race is recovered: when a placement's StartWorker
\* fails because the core it chose has been populated meanwhile, the call
\* keeps scheduleMux and continues its placement with the worker now on that
\* core; it neither returns an error nor offers the job to the queue.
LostRaceRecovered ==
  [][ \A j \in Jobs :
        ( /\ call[j].pc = "start_worker"
          /\ call'[j] # call[j]
          /\ call[j].core \in DOMAIN workers )
        => /\ call'[j].pc \in {"settle", "reserve_read", "reserve_write"}
           /\ call[j].core \in {call'[j].core, call'[j].wk}
           /\ scheduleMux' = j ]_vars

\* C31 Stable snapshots: the CurrentCPU a placement (of ScheduleJob or of the
\* drainer) reads through the worker it obtained from findSuitableWorker is
\* the value that worker had when the snapshot was taken, whatever
\* UpdateWorkerCPU calls other goroutines made since.
StableSnapshots ==
  [][ /\ \A j \in Jobs :
           (call[j].pc = "reserve_read" /\ call'[j].pc = "reserve_write")
           => call'[j].rd = place[j].pre
      /\ (drain.pc = "reserve_read" /\ drain'.pc = "reserve_write")
           => drain'.rd = place[drain.job].pre ]_vars

\* C32 Atomic adjust: every reservation write stores the worker's CurrentCPU
\* at the moment of the write plus the estimate, and every release write
\* stores max(0, CurrentCPU at the moment of the write minus the estimate), so
\* no concurrent reservation or release on the same worker is overwritten.
AtomicAdjust ==
  [][ /\ \A j \in Jobs :
           /\ (call[j].pc = "reserve_write" /\ call'[j] # call[j])
                => workers'[call[j].wk] = workers[call[j].wk] + call[j].est
           /\ (run[j].pc = "release_write" /\ run'[j] # run[j])
                => workers'[run[j].wk] =
                     (LET v == workers[run[j].wk] - call[j].est
                      IN IF v < 0 THEN 0 ELSE v)
      /\ (drain.pc = "reserve_write" /\ drain' # drain)
           => workers'[drain.wk] = workers[drain.wk] + call[drain.job].est
    ]_vars

\* ------------------------------------------- the Orchestrator's own interface
\* The exported methods of Orchestrator called directly, with any argument,
\* by RegistryCalls goroutines (one call each); the scheduler is idle.
RegistryCalls == 4

\* coreID arguments explored: the catalogue and one value on either side
CoreIDChoices == {0, 1, 2, 3, 4}

\* cpuPercent arguments explored
CpuPercentChoices == {0, 40, 100}

RegistryInit ==
  /\ enableQueue = FALSE
  /\ \E n \in InitialWorkersChoices :
       /\ workers = [c \in 1..n |-> 0]
       /\ containers = [c \in Cores |-> IF c <= n THEN 1 ELSE 0]
  /\ scheduleMux = Free
  /\ jobQueue = <<>>
  /\ stopped = FALSE
  /\ call = [j \in 1..RegistryCalls |-> InitCall]
  /\ qjob = [j \in 1..RegistryCalls |-> InitQJob]
  /\ run = [j \in 1..RegistryCalls |-> InitRun]
  /\ drain = [InitDrain EXCEPT !.pc = "off"]
  /\ nextSeq = 0
  /\ outstanding = [c \in Cores |-> {}]
  /\ place = [j \in 1..RegistryCalls |-> InitPlace]

\* the record of a finished call of goroutine j: its argument and its result
Returned(j, coreID, r) ==
  [call EXCEPT ![j].pc = "done", ![j].core = coreID, ![j].result = r,
               ![j].returns = @ + 1]

\* o.StartWorker(coreID): validation, Docker create and start, registration
CallStartWorker(j) ==
  /\ call[j].pc = "called"
  /\ \E coreID \in CoreIDChoices, dockerOk \in BOOLEAN :
       IF StartWorkerOk(workers, coreID, dockerOk)
       THEN /\ workers' = Register(workers, coreID)
            /\ containers' = [containers EXCEPT ![coreID] = @ + 1]
            /\ call' = Returned(j, coreID, "started")
       ELSE /\ UNCHANGED <<workers, containers>>
            /\ call' = Returned(j, coreID, StartWorkerErr(workers, coreID))
  /\ UNCHANGED <<enableQueue, scheduleMux, jobQueue, stopped, qjob, run,
                 drain, nextSeq, outstanding, place>>

\* o.UpdateWorkerCPU(coreID, cpuPercent)
CallUpdateWorkerCPU(j) ==
  /\ call[j].pc = "called"
  /\ \E coreID \in CoreIDChoices, cpuPercent \in CpuPercentChoices :
       /\ workers' = UpdateWorkerCPU(workers, coreID, cpuPercent)
       /\ call' = Returned(j, coreID, "updated")
  /\ UNCHANGED <<enableQueue, containers, scheduleMux, jobQueue, stopped,
                 qjob, run, drain, nextSeq, outstanding, place>>

RegistryNext ==
  \E j \in 1..RegistryCalls : CallStartWorker(j) \/ CallUpdateWorkerCPU(j)

RegistrySpec == RegistryInit /\ [][RegistryNext]_vars

\* C33 Register errors leave state unchanged: a StartWorker call on a core
\* that already has a worker, or on a core ID outside the catalogue {1,2,3},
\* returns the corresponding error and leaves the worker map (the set of
\* workers and every worker's CurrentCPU) and the started containers as they
\* are; so do the scheduler's own StartWorker calls on an occupied core.
RegisterErrorsLeaveStateUnchanged ==
  [][ \A j \in Jobs :
        /\ ( /\ call[j].pc = "called"
             /\ call'[j].pc = "done"
             /\ call'[j].result # "updated"
             /\ (call'[j].core \in DOMAIN workers \/ call'[j].core \notin Cores) )
           => /\ call'[j].result =
                   (IF call'[j].core \in Cores THEN "core_occupied"
                    ELSE "invalid_core")
              /\ workers' = workers
              /\ containers' = containers
        /\ ( /\ call[j].pc = "start_worker"
             /\ call'[j] # call[j]
             /\ call[j].core \in DOMAIN workers )
           => (workers' = workers /\ containers' = containers)
        /\ ( /\ run[j].pc = "cps_start"
             /\ run'[j] # run[j]
             /\ run[j].core \in DOMAIN workers )
           => (workers' = workers /\ containers' = containers) ]_vars

\* one StartWorker call was refused for an occupied core whose worker holds a
\* nonzero CurrentCPU, another for a core ID outside the catalogue
RegisterRefusedBothWays ==
  \E j, k \in Jobs :
    /\ call[j].result = "core_occupied"
    /\ workers[call[j].core] > 0
    /\ call[k].result = "invalid_core"

\* C34 Registry shape: in every reachable state the populated cores are a
\* subset of the catalogue {1,2,3} (at most three workers), and no step
\* removes or replaces a worker: a populated core stays populated, by the
\* container that was started for it.
RegistryShape ==
  /\ [](/\ DOMAIN workers \subseteq Cores
        /\ Cardinality(DOMAIN workers) <= 3)
  /\ [][ \A c \in DOMAIN workers :
           /\ c \in DOMAIN workers'
           /\ containers'[c] = containers[c] ]_vars

\* a placement has just started the worker that fills the catalogue, while
\* the workers started before it hold reservations
CatalogueFilled ==
  /\ DOMAIN workers = Cores
  /\ \E j \in Jobs : call[j].pc = "settle" /\ call[j].core = 3
  /\ \A c \in {1, 2} : workers[c] > 0

\* C35 Pre-spawn only after success: checkProactiveSpawn runs (its check, and
\* the StartWorker it may go on to) only for a job whose executeJobOnWorker
\* returned a response, on scheduleJobDirect, on the immediate path of
\* scheduleJobWithQueue and in the drainer's dispatch task.
PreSpawnOnlyAfterSuccess ==
  \A j \in Jobs : run[j].pc \in {"cps", "cps_start"} => run[j].ok

\* C36 Quiet after shutdown: once StopQueueProcessor has returned (it has
\* closed queueWorkerStop), the drainer has exited, and no step signals a
\* queued job's sink any more, be it the drainer's expiry, a requeue
\* goroutine's failure or a drain task's result.
QuietAfterShutdown ==
  /\ [](stopped => drain.pc = "stopped")
  /\ [][ stopped => \A j \in Jobs : qjob'[j].sent = qjob[j].sent ]_vars

\* C37 Queue admission condition: with queuing enabled, a call leaves its
\* placement section (under scheduleMux) for the queue offer only when no
\* worker is eligible for its estimate and no core is free; a call whose
\* findSuitableWorker finds a worker goes on to reserve.
QueueAdmissionCondition ==
  [][ \A j \in Jobs :
        /\ (call[j].pc # "offer" /\ call'[j].pc = "offer")
           => /\ scheduleMux = j
              /\ FindSuitableWorker(workers, call[j].est) = {}
              /\ GetNextAvailableCore(workers) = NoWorker
        /\ ( /\ call[j].pc = "called"
             /\ call'[j] # call[j]
             /\ FindSuitableWorker(workers, call[j].est) # {} )
           => call'[j].pc = "reserve_read" ]_vars

\* Scheduling assumed for lock acquisition: FairSpec, and the drainer too is
\* handed scheduleMux when it keeps asking (sync.Mutex starvation mode).
FairLockSpec == FairSpec /\ SF_vars(DrainPlace)

\* C38 No deadlock: scheduleMux is held only by a goroutine inside its
\* placement section (every path out of the section, error returns included,
\* unlocks), no step that writes the registry under Orchestrator.mu acquires
\* scheduleMux, and again and again the lock is free with nobody waiting for
\* it: every ScheduleJob call waiting for scheduleMux eventually acquires it
\* (a call asks once), the drainer's wait always ends, no holder keeps it.
NoDeadlock ==
  /\ [](/\ scheduleMux \in Jobs \cup {Free, Drainer}
        /\ \A j \in Jobs :
             scheduleMux = j
             <=> call[j].pc \in {"get_core", "start_worker", "settle",
                                 "reserve_read", "reserve_write"}
        /\ scheduleMux = Drainer
             <=> drain.pc \in {"reserve_read", "reserve_write"})
  /\ [][ workers' # workers => scheduleMux' \in {scheduleMux, Free} ]_vars
  /\ []<>(/\ scheduleMux = Free
          /\ \A j \in Jobs : call[j].pc # "called"
          /\ drain.pc # "lock")

\* a call holds scheduleMux in its settle wait while another call and the
\* drainer wait for the lock
WaitersDuringSettle ==
  \E j, k \in Jobs :
    /\ call[j].pc = "settle"
    /\ scheduleMux = j
    /\ call[k].pc = "called"
    /\ drain.pc = "lock"

\* C39 Requeue preserves the job: the miss hands the dequeued QueuedJob to the
\* requeue goroutine and the requeue sends that same job back, with its
\* enqueuedAt (age and enqueue order), estimatedCPU, request and sinks as they
\* were; while a job is queued, held by the drainer or awaiting requeue, its
\* age never goes back, so its deadline counts from its first enqueue.
RequeuePreservesJob ==
  [][ /\ \A j \in Jobs :
           /\ (qjob[j].rq = "pending" /\ InSeq(j, jobQueue'))
                => /\ jobQueue' = Append(jobQueue, j)
                   /\ qjob'[j] = [qjob[j] EXCEPT !.rq = "none"]
                   /\ call'[j].est = call[j].est
           /\ (Tracked(j) /\ Tracked(j)')
                => /\ qjob'[j].age >= qjob[j].age
                   /\ qjob'[j].seq = qjob[j].seq
                   /\ call'[j].est = call[j].est
      /\ (drain.pc = "lock" /\ drain'.pc = "idle")
           => /\ qjob'[drain.job] = [qjob[drain.job] EXCEPT !.rq = "pending"]
              /\ call' = call ]_vars

\* a requeued job (it stands behind a job enqueued after it) whose age,
\* counted from its first enqueue, is past QUEUE_TIMEOUT
RequeuedJobPastDeadline ==
  \E j, k \in Jobs :
    /\ jobQueue = <<k, j>>
    /\ qjob[j].seq < qjob[k].seq
    /\ qjob[j].age > QUEUE_TIMEOUT

\* C40 Reservation frame: a reservation write (of ScheduleJob or of the
\* drainer) and a release write change at most the CurrentCPU of the worker
\* the job was placed on: every other worker's CurrentCPU, the set of
\* workers, the started containers and the queue contents are as before; so
\* does a direct UpdateWorkerCPU call, which changes nothing for an unknown
\* core.
ReservationFrame ==
  [][ LET Frame(w) ==
            /\ DOMAIN workers' = DOMAIN workers
            /\ \A c \in DOMAIN workers \ {w} : workers'[c] = workers[c]
            /\ containers' = containers
            /\ jobQueue' = jobQueue
      IN /\ \A j \in Jobs :
              /\ (call[j].pc = "reserve_write" /\ call'[j] # call[j])
                   => Frame(call[j].wk)
              /\ (run[j].pc = "release_write" /\ run'[j] # run[j])
                   => Frame(run[j].wk)
              /\ (call[j].pc = "called" /\ call'[j].result = "updated")
                   => Frame(call'[j].core)
         /\ (drain.pc = "reserve_write" /\ drain' # drain)
              => Frame(drain.wk) ]_vars

\* a release write is pending on one worker while another worker holds a
\* reservation and a job is queued
ReleasePendingBesideOthers ==
  \E j \in Jobs :
    /\ run[j].pc = "release_write"
    /\ workers[run[j].wk] # run[j].rd - call[j].est
    /\ \E c \in DOMAIN workers \ {run[j].wk} : workers[c] > 0
    /\ jobQueue # <<>>

====
